---- MODULE Spec2Model ----
(***************************************************************************)
(* Kaiser-window FIR filter command (pp_cmd_fir_filter).                   *)
(*                                                                         *)
(* kaiser_filter (src/fir_filter/filters.py, copied in command.py) is a    *)
(* pipeline of three library calls: kaiserord -> firwin -> lfilter.        *)
(* FirFilterCommand.transform reads a dataframe column, calls              *)
(* kaiser_filter with the default ripple and transition width, and writes  *)
(* the column filtered_<signal>.                                           *)
(*                                                                         *)
(* Numbers.  Samples, frequencies (Hz), ripple (dB) and transition width   *)
(* (Hz) are integers.  Python floats derived from them are carried in      *)
(* fixed point with three decimals ("milli"): a normalised frequency 0.25  *)
(* is 250, a tap 0.5 is 500.  Filtered samples are sample * tap, hence     *)
(* also milli.  Integer division floors.  The number of taps is computed   *)
(* exactly enough for the ceiling to be the library's on every input used. *)
(* A Python exception is an outcome with ok = FALSE and the exception's    *)
(* class name; the specification's InvalidSpec is any such outcome.        *)
(***************************************************************************)
EXTENDS Integers, Sequences, FiniteSets, TLC

(* ------------------------------ bounds -------------------------------- *)
\* longest signal held by the dataframe column
MaxLen == 3

(* ------------------------- outcomes of a call ------------------------- *)
\* a Python None argument / an argument holding the number c
None == <<>>
Some(c) == <<c>>
IsNone(v) == v = <<>>
Val(v) == v[1]

\* the call raised the exception e: nothing is returned
Raised(e) == [ok |-> FALSE, exc |-> e, value |-> <<>>]
\* the call returned v
Returned(v) == [ok |-> TRUE, exc |-> "", value |-> v]
\* no call has been made / finished yet
NoOutcome == [ok |-> FALSE, exc |-> "pending", value |-> <<>>]

(* ----------------------------- arithmetic ----------------------------- *)
Abs(x) == IF x < 0 THEN -x ELSE x
\* ceil(a / b) for integers a, b with b # 0
CeilDiv(a, b) == -((-a) \div b)

RECURSIVE SumTo(_, _)
\* sum of f[1] .. f[n]
SumTo(f, n) == IF n <= 0 THEN 0 ELSE f[n] + SumTo(f, n - 1)

RECURSIVE ISqrtFrom(_, _)
ISqrtFrom(x, r) == IF (r + 1) * (r + 1) > x THEN r ELSE ISqrtFrom(x, r + 1)
\* floor(sqrt(x)) for 0 <= x <= 10^6, by bisection on the decimal digits
ISqrt(x) ==
  LET h == ISqrtFrom(x \div 10000, 0) * 100
      t == CHOOSE d \in 0..9 : (h + 10 * d) * (h + 10 * d) <= x
                               /\ (h + 10 * (d + 1)) * (h + 10 * (d + 1)) > x
  IN  ISqrtFrom(x, h + 10 * t)

\* sin(x) * 1000 for x = pi * v / 2000 in the first quadrant (0 <= v <= 1000),
\* by the Taylor polynomial of degree 9
SinQ(v) ==
  LET x  == (31416 * v) \div 20000
      x2 == (x * x) \div 1000
      t3 == (x * x2) \div 6000
      t5 == (t3 * x2) \div 20000
      t7 == (t5 * x2) \div 42000
      t9 == (t7 * x2) \div 72000
      s  == x - t3 + t5 - t7 + t9
  IN  IF s > 1000 THEN 1000 ELSE s

\* sin(pi * u / 2000) * 1000 for any integer u
SinPi(u) ==
  LET v == u % 4000
  IN  IF v <= 1000 THEN SinQ(v)
      ELSE IF v <= 2000 THEN SinQ(2000 - v)
      ELSE IF v <= 3000 THEN -SinQ(v - 2000)
      ELSE -SinQ(4000 - v)

\* cos(pi * u / 2000) * 1000
CosPi(u) == SinPi(u + 1000)

RECURSIVE I0Series(_, _, _)
\* sum of the terms t_k, t_(k+1), ... of I0, t_(k+1) = t_k * q / (k+1)^2
I0Series(q, t, k) ==
  IF t = 0 \/ k > 30 THEN 0
  ELSE t + I0Series(q, (t * q) \div (1000 * (k + 1) * (k + 1)), k + 1)

\* modified Bessel function I0(x) * 1000 for x in milli, 0 <= x <= 6000
I0(x) == I0Series((x * x) \div 4000, 1000, 0)

(* ------------------- scipy.signal.kaiserord (line 35) ----------------- *)
\* kaiser_beta(a) * 1000: the shape parameter of the Kaiser window.  The
\* middle branch needs (a - 21)^0.4, taken as the largest y in tenths with
\* y^5 <= (a - 21)^2.
KaiserBeta(a) ==
  IF a > 50 THEN (1102 * (10 * a - 87)) \div 100
  ELSE IF a > 21
    THEN LET d == a - 21
             y == CHOOSE r \in 0..40 : r * r * r * r * r <= d * d * 100000
                    /\ (r + 1) * (r + 1) * (r + 1) * (r + 1) * (r + 1) > d * d * 100000
         IN  (5842 * y) \div 100 + (7886 * d) \div 100
  ELSE 0

\* kaiserord(ripple, width) with width = wnum / wden (wden # 0):
\*   A = abs(ripple); A < 8 raises ValueError;
\*   numtaps = (A - 7.95) / 2.285 / (pi * width) + 1   (width = 0.0 raises
\*   ZeroDivisionError); returns int(ceil(numtaps)), beta.
\* 2.285 * pi = 7.17854 so numtaps - 1 = (100 A - 795) * 1000 * wden / (717854 * wnum).
KaiserOrd(ripple, wnum, wden) ==
  LET A == Abs(ripple)
  IN  IF A < 8 THEN Raised("ValueError")
      ELSE IF wnum = 0 THEN Raised("ZeroDivisionError")
      ELSE Returned([N |-> CeilDiv((100 * A - 795) * 1000 * wden, 717854 * wnum) + 1,
                     beta |-> KaiserBeta(A)])

(* --------------------- scipy.signal.firwin (38-47) -------------------- *)
\* kaiser(M, beta) * 1000 (sym = True): M <= 1 gives ones(M); otherwise
\*   w[k] = I0(beta * sqrt(1 - ((k - alpha) / alpha)^2)) / I0(beta),
\*   k = 0 .. M-1, alpha = (M-1)/2
KaiserWindow(M, beta) ==
  IF M <= 1 THEN [i \in 1..M |-> 1000]
  ELSE LET i0beta == I0(beta)
       IN  [i \in 1..M |->
              LET mm  == 2 * (i - 1) - (M - 1)
                  q   == (((M - 1) * (M - 1) - mm * mm) * 1000) \div ((M - 1) * (M - 1))
                  arg == (beta * ISqrt(q * 1000)) \div 1000
              IN  (I0(arg) * 1000) \div i0beta]

\* the passbands: hstack(([0.0] * pass_zero, cutoff, [1.0] * pass_nyquist))
\* reshaped into rows of (left, right)
Bands(cutoff, pass_zero, pass_nyquist) ==
  LET edges == (IF pass_zero THEN <<0>> ELSE <<>>) \o cutoff
               \o (IF pass_nyquist THEN <<1000>> ELSE <<>>)
  IN  [i \in 1..(Len(edges) \div 2) |-> <<edges[2 * i - 1], edges[2 * i]>>]

\* f * sinc(f * m) * 1000 at m = mm / 2, f in milli:
\*   sinc(x) = sin(pi x) / (pi x), and 1 at x = 0
EdgeSinc(f, mm) ==
  IF mm = 0 \/ f = 0 THEN f
  ELSE (SinPi(f * mm) * 2000) \div (3142 * mm)

RECURSIVE Ideal(_, _, _)
\* h[k] before windowing: sum over the first n bands of
\* right * sinc(right * m) - left * sinc(left * m)
Ideal(bands, n, mm) ==
  IF n = 0 THEN 0
  ELSE EdgeSinc(bands[n][2], mm) - EdgeSinc(bands[n][1], mm) + Ideal(bands, n - 1, mm)

\* CutoffsBad without the test that the edges increase
CutoffsBadNoOrder(cutoff) ==
  \E i \in 1..Len(cutoff) : cutoff[i] <= 0 \/ cutoff[i] >= 1000

\* firwin's check of the band edges: every edge strictly inside (0, 1)
\* (cutoff.min() <= 0 or cutoff.max() >= 1) and strictly increasing
\* (np.any(np.diff(cutoff) <= 0))
CutoffsBad(cutoff) ==
  \/ \E i \in 1..Len(cutoff) : cutoff[i] <= 0 \/ cutoff[i] >= 1000
  \/ \E i \in 1..(Len(cutoff) - 1) : cutoff[i + 1] - cutoff[i] <= 0

\* firwin(numtaps, cutoff, window=("kaiser", beta), pass_zero=mode), fs = 2:
\* cutoff is the sequence of normalised band edges (milli).
FirWin(numtaps, cutoff, beta, mode) ==
  LET pass_zero    == mode \in {"lowpass", "bandstop"}
      pass_nyquist == ((Len(cutoff) % 2) = 1) # pass_zero
      bands        == Bands(cutoff, pass_zero, pass_nyquist)
      \* m = arange(numtaps) - alpha, doubled: mm[i] = 2 (i - 1) - (numtaps - 1)
      win          == KaiserWindow(numtaps, beta)
      windowed     == [i \in 1..numtaps |->
                         (Ideal(bands, Len(bands), 2 * (i - 1) - (numtaps - 1)) * win[i])
                         \div 1000]
      left         == bands[1][1]
      right        == bands[1][2]
      scale_frequency == IF left = 0 THEN 0
                         ELSE IF right = 1000 THEN 1000
                         ELSE (left + right) \div 2
      s == SumTo([i \in 1..numtaps |->
                    (windowed[i] * CosPi(scale_frequency * (2 * (i - 1) - (numtaps - 1))))
                    \div 1000], numtaps)
  IN  IF CutoffsBad(cutoff) THEN Raised("ValueError")
      ELSE IF mode \in {"lowpass", "highpass"} /\ Len(cutoff) # 1
        THEN Raised("ValueError")
      ELSE IF mode \in {"bandpass", "bandstop"} /\ Len(cutoff) <= 1
        THEN Raised("ValueError")
      ELSE IF pass_nyquist /\ numtaps % 2 = 0
        THEN Raised("ValueError")
      \* get_window -> kaiser(M): a negative length raises
      ELSE IF numtaps < 0 THEN Raised("ValueError")
      \* h /= s; a float division by 0.0 does not raise (the taps are then
      \* inf or nan, carried here as 0)
      ELSE Returned([i \in 1..numtaps |->
                       IF s = 0 THEN 0 ELSE (windowed[i] * 1000) \div s])

(* ---------------------- scipy.signal.lfilter (50) --------------------- *)
\* the full discrete convolution: full[n] = sum_m a[m] * v[n - m], of length
\* len(a) + len(v) - 1
ConvolveFull(a, v) ==
  [n \in 1..(Len(a) + Len(v) - 1) |->
     SumTo([m \in 1..Len(a) |->
              IF n - m + 1 >= 1 /\ n - m + 1 <= Len(v)
                THEN a[m] * v[n - m + 1] ELSE 0], Len(a))]

\* Convolve without the test for empty operands
ConvolveEmptyOk(a, v) == Returned(ConvolveFull(a, v))

\* numpy.convolve(a, v) (mode "full"): either operand empty raises ValueError
Convolve(a, v) ==
  IF Len(a) = 0 \/ Len(v) = 0 THEN Raised("ValueError")
  ELSE Returned(ConvolveFull(a, v))

\* Lfilter keeping the last len(x) samples of the full convolution instead
\* of the first
LfilterTail(b, x) ==
  LET out_full == Convolve(b, x)
  IN  IF ~out_full.ok THEN out_full
      ELSE Returned(SubSeq(out_full.value, Len(b), Len(out_full.value)))

\* lfilter(b, 1.0, x), the FIR path (len(a) = 1, zi = None):
\*   out_full = convolve(b, x); out = out_full[: len(out_full) - len(b) + 1]
Lfilter(b, x) ==
  LET out_full == Convolve(b, x)
  IN  IF ~out_full.ok THEN out_full
      ELSE Returned(SubSeq(out_full.value, 1, Len(out_full.value) - Len(b) + 1))

(* ------------------ kaiser_filter (filters.py 5-52) ------------------- *)
\* default arguments of kaiser_filter
DefaultRippleDb == 60
DefaultTranzitionWidth == 5

\* cut / nyq_rate in milli, nyq_rate = fs * 0.5 (fs # 0)
Normalized(cut, fs) == (2000 * cut) \div fs

\* DesignRequest with the two single-cutoff designs exchanged
DesignRequestSwapped(N, beta, fs, lowcut, highcut) ==
  IF IsNone(lowcut)
    THEN IF IsNone(highcut) THEN Raised("TypeError")
         ELSE Returned([beta |-> beta, cutoff |-> <<Normalized(Val(highcut), fs)>>,
                        pass_zero |-> "lowpass", numtaps |-> N])
  ELSE IF IsNone(highcut)
    THEN Returned([beta |-> beta, cutoff |-> <<Normalized(Val(lowcut), fs)>>,
                   pass_zero |-> "highpass", numtaps |-> N])
  ELSE Returned([beta |-> beta,
                 cutoff |-> <<Normalized(Val(lowcut), fs), Normalized(Val(highcut), fs)>>,
                 pass_zero |-> "bandpass", numtaps |-> N])

\* DesignRequest falling back to a half-band lowpass when no cutoff is given
DesignRequestFallback(N, beta, fs, lowcut, highcut) ==
  IF IsNone(lowcut) /\ IsNone(highcut)
    THEN Returned([beta |-> beta, cutoff |-> <<500>>, pass_zero |-> "lowpass",
                   numtaps |-> N])
  ELSE IF IsNone(lowcut)
    THEN Returned([beta |-> beta, cutoff |-> <<Normalized(Val(highcut), fs)>>,
                   pass_zero |-> "highpass", numtaps |-> N])
  ELSE IF IsNone(highcut)
    THEN Returned([beta |-> beta, cutoff |-> <<Normalized(Val(lowcut), fs)>>,
                   pass_zero |-> "lowpass", numtaps |-> N])
  ELSE Returned([beta |-> beta,
                 cutoff |-> <<Normalized(Val(lowcut), fs), Normalized(Val(highcut), fs)>>,
                 pass_zero |-> "bandpass", numtaps |-> N])

\* SignalAfter for a filter that writes its output into the array it was given
SignalAfterInPlace(signal, out) == IF out.ok THEN out.value ELSE signal

\* the content of the array passed as signal once the call has ended with
\* outcome out: lfilter and convolve build new arrays and never write to x
SignalAfter(signal, out) == signal

\* the firwin call of lines 37-47: which design is asked for, or the
\* TypeError of dividing None by nyq_rate
DesignRequest(N, beta, fs, lowcut, highcut) ==
  IF IsNone(lowcut)
    THEN IF IsNone(highcut) THEN Raised("TypeError")
         ELSE Returned([beta |-> beta, cutoff |-> <<Normalized(Val(highcut), fs)>>,
                        pass_zero |-> "highpass", numtaps |-> N])
  ELSE IF IsNone(highcut)
    THEN Returned([beta |-> beta, cutoff |-> <<Normalized(Val(lowcut), fs)>>,
                   pass_zero |-> "lowpass", numtaps |-> N])
  ELSE Returned([beta |-> beta,
                 cutoff |-> <<Normalized(Val(lowcut), fs), Normalized(Val(highcut), fs)>>,
                 pass_zero |-> "bandpass", numtaps |-> N])

\* One execution of kaiser_filter: the outcome of each stage and of the call,
\* and the content of the array passed as signal when the call ends.
\*   27  nyq_rate = fs * 0.5
\*   32  width = tranzition_width / nyq_rate     (ZeroDivisionError if fs = 0)
\*   35  N, beta = kaiserord(ripple_db, width)
\*   37-47  taps = firwin(N, ..., pass_zero=...)
\*   50  filtered_signal = lfilter(taps, 1.0, signal)
KaiserFilterRun(signal, fs, lowcut, highcut, ripple_db, tranzition_width) ==
  LET ord    == IF fs = 0 THEN Raised("ZeroDivisionError")
                ELSE KaiserOrd(ripple_db, 2 * tranzition_width, fs)
      design == IF ~ord.ok THEN NoOutcome
                ELSE DesignRequest(ord.value.N, ord.value.beta, fs, lowcut, highcut)
      taps   == IF ~design.ok THEN NoOutcome
                ELSE FirWin(design.value.numtaps, design.value.cutoff,
                            design.value.beta, design.value.pass_zero)
      ret    == IF ~ord.ok THEN ord
                ELSE IF ~design.ok THEN design
                ELSE IF ~taps.ok THEN taps
                ELSE Lfilter(taps.value, signal)
  IN  [ord |-> ord, design |-> design, taps |-> taps, ret |-> ret,
       array |-> SignalAfter(signal, ret)]

(* ------------------------------- state -------------------------------- *)
VARIABLES
  df,       \* the dataframe: column name -> array of samples
  pc,       \* "idle", "called" (arguments bound), "returned"; "designed" when
            \* kaiser_filter stands before line 50
  args,     \* the arguments of the call in progress or last made
  run,      \* that call's outcomes: of kaiserord (ord), the firwin call made
            \* (design), of firwin (taps) and of the call itself (ret)
  pinned    \* an earlier finished call (arguments, signal passed, outcome) kept
            \* for comparison with later calls

vars == <<df, pc, args, run, pinned>>

Samples == {-1, 2}
RECURSIVE SeqsUpTo(_, _)
\* all sequences over S of length 0 .. n
SeqsUpTo(S, n) ==
  IF n = 0 THEN {<<>>}
  ELSE LET shorter == SeqsUpTo(S, n - 1)
       IN  shorter \cup {Append(q, e) : q \in {r \in shorter : Len(r) = n - 1}, e \in S}
Signals == SeqsUpTo(Samples, MaxLen)

FsValues == {-8, 0, 8, 40, 100}
CutValues == {None, Some(0), Some(1), Some(3), Some(10)}
RippleValues == {-10, 0, 10, DefaultRippleDb}
WidthValues == {0, DefaultTranzitionWidth, 10}

NoRun == [ord |-> NoOutcome, design |-> NoOutcome, taps |-> NoOutcome, ret |-> NoOutcome,
          array |-> <<>>]

NoArgs == [fs |-> 0, lowcut |-> None, highcut |-> None, ripple_db |-> 0,
           tranzition_width |-> 0, fn |-> "none", signal_name |-> ""]

Init ==
  /\ df \in {[c \in {"x"} |-> sig] : sig \in Signals}
  /\ pc = "idle"
  /\ args = NoArgs
  /\ run = NoRun
  /\ pinned = <<>>

\* the caller binds the arguments of its next call
Bind(a) ==
  /\ pc = "idle"
  /\ pc' = "called"
  /\ args' = a
  /\ UNCHANGED <<df, run, pinned>>

\* a caller of kaiser_filter on the column "x", every argument given
Invoke ==
  \E fs \in FsValues, lowcut \in CutValues, highcut \in CutValues,
     ripple_db \in RippleValues, tranzition_width \in WidthValues :
    Bind([fs |-> fs, lowcut |-> lowcut, highcut |-> highcut, ripple_db |-> ripple_db,
          tranzition_width |-> tranzition_width, fn |-> "kaiser_filter",
          signal_name |-> "x"])

\* kaiser_filter runs to its return or its exception.  keep says whether the
\* observer pins this call; once a call is pinned, later records whether a
\* call made after it has raised.
RunKeeping(keep) ==
  /\ pc = "called"
  /\ args.fn = "kaiser_filter"
  /\ run' = KaiserFilterRun(df[args.signal_name], args.fs, args.lowcut, args.highcut,
                            args.ripple_db, args.tranzition_width)
  /\ df' = [df EXCEPT ![args.signal_name] = run'.array]
  /\ pinned' = IF pinned # <<>>
                 THEN <<[pinned[1] EXCEPT !.later = IF run'.ret.ok THEN @ ELSE 1]>>
               ELSE IF keep
                 THEN <<[signal |-> df[args.signal_name], ret |-> run'.ret, args |-> args,
                         later |-> 0]>>
               ELSE pinned
  /\ pc' = "returned"
  /\ UNCHANGED args

Run == RunKeeping(FALSE)

\* the caller has taken the outcome; the locals of the call are gone
Finish ==
  /\ pc = "returned"
  /\ pc' = "idle"
  /\ args' = NoArgs
  /\ run' = NoRun
  /\ UNCHANGED <<df, pinned>>

Next == Invoke \/ Run \/ Finish

Spec == Init /\ [][Next]_vars

(* ------------- calls repeated, an earlier call kept aside ------------- *)
\* a caller of kaiser_filter that leaves ripple_db and tranzition_width at
\* their defaults
InvokeDefault ==
  \E fs \in {0, 8, 40}, lowcut \in {None, Some(3)}, highcut \in {None, Some(3)} :
    Bind([fs |-> fs, lowcut |-> lowcut, highcut |-> highcut,
          ripple_db |-> DefaultRippleDb, tranzition_width |-> DefaultTranzitionWidth,
          fn |-> "kaiser_filter", signal_name |-> "x"])

\* kaiser_filter runs and the observer pins the call if none is pinned yet
RunPinned == RunKeeping(TRUE)

NextRepeat == InvokeDefault \/ Run \/ RunPinned \/ Finish

SpecRepeat == Init /\ [][NextRepeat]_vars

(* ------------- FirFilterCommand.transform (command.py 70-82) ---------- *)
\* the column transform writes
FilteredName(signal_name) == "filtered_" \o signal_name

\* df[name] = column (line 81): the column is added or replaced
SetColumn(d, name, column) ==
  [c \in DOMAIN d \cup {name} |-> IF c = name THEN column ELSE d[c]]

\* TransformRun assigning the column whatever the outcome of the filter
TransformRunEager(d, signal_name, fs, lowcut, highcut) ==
  IF signal_name \notin DOMAIN d
    THEN [df |-> SetColumn(d, FilteredName(signal_name), <<>>),
          run |-> [NoRun EXCEPT !.ret = Raised("KeyError")]]
  ELSE LET r == KaiserFilterRun(d[signal_name], fs, lowcut, highcut,
                                DefaultRippleDb, DefaultTranzitionWidth)
           raw == [d EXCEPT ![signal_name] = r.array]
       IN  [df |-> SetColumn(raw, FilteredName(signal_name), r.ret.value), run |-> r]

\* transform(df) with the arguments signal, fs, lowcut, highcut:
\*   76  raw_signal = df[signal_name].values     (KeyError if no such column)
\*   78  filtered_signal = kaiser_filter(raw_signal, fs=fs, lowcut=lowcut, highcut=highcut)
\*   81  df["filtered_<signal_name>"] = filtered_signal
\* gives the dataframe left behind and the outcomes of the call
TransformRun(d, signal_name, fs, lowcut, highcut) ==
  IF signal_name \notin DOMAIN d
    THEN [df |-> d, run |-> [NoRun EXCEPT !.ret = Raised("KeyError")]]
  ELSE LET r == KaiserFilterRun(d[signal_name], fs, lowcut, highcut,
                                DefaultRippleDb, DefaultTranzitionWidth)
           raw == [d EXCEPT ![signal_name] = r.array]
       IN  [df |-> IF r.ret.ok
                     THEN SetColumn(raw, FilteredName(signal_name), r.ret.value)
                   ELSE raw,
            run |-> r]

\* the host runs the command: signal names a column, the three keywords are
\* required numbers (Syntax, lines 59-66)
InvokeTransform ==
  \E signal_name \in {"x", "y"}, fs \in FsValues,
     lowcut \in CutValues \ {None}, highcut \in CutValues \ {None} :
    Bind([fs |-> fs, lowcut |-> lowcut, highcut |-> highcut,
          ripple_db |-> DefaultRippleDb, tranzition_width |-> DefaultTranzitionWidth,
          fn |-> "transform", signal_name |-> signal_name])

RunTransform ==
  /\ pc = "called"
  /\ args.fn = "transform"
  /\ \E t \in {TransformRun(df, args.signal_name, args.fs, args.lowcut, args.highcut)} :
       /\ run' = t.run
       /\ df' = t.df
  /\ pc' = "returned"
  /\ UNCHANGED <<args, pinned>>

NextCommand == InvokeTransform \/ RunTransform \/ Finish

SpecCommand == Init /\ [][NextCommand]_vars

(* ----------------- lfilter on arbitrary taps (line 50) ---------------- *)
\* longest tap sequence tried
MaxTaps == 3
TapValues == {-500, 1000}

\* kaiser_filter has reached line 50 with some tap sequence
InitLfilter ==
  /\ df \in {[c \in {"x"} |-> sig] : sig \in Signals}
  /\ pc = "designed"
  /\ args = NoArgs
  /\ run \in {[NoRun EXCEPT !.taps = Returned(b)] : b \in SeqsUpTo(TapValues, MaxTaps)}
  /\ pinned = <<>>

\* filtered_signal = lfilter(taps, 1.0, signal)
ApplyFilter ==
  /\ pc = "designed"
  /\ run' = [run EXCEPT !.ret = Lfilter(run.taps.value, df["x"]), !.array = df["x"]]
  /\ pc' = "returned"
  /\ UNCHANGED <<df, args, pinned>>

NextLfilter == ApplyFilter \/ Finish

SpecLfilter == InitLfilter /\ [][NextLfilter]_vars

(* ============================== claims ================================ *)
\* the signal handed to the call in progress or last made
Signal == df["x"]
HasLow == ~IsNone(args.lowcut)
HasHigh == ~IsNone(args.highcut)
\* a direct call of kaiser_filter has ended
Ended == pc = "returned" /\ args.fn = "kaiser_filter"
\* cut / (fs / 2) lies strictly between 0 and 1
InUnit(cut, fs) ==
  IF fs > 0 THEN 0 < 2 * cut /\ 2 * cut < fs
  ELSE fs < 0 /\ 2 * cut < 0 /\ 2 * cut > fs
\* tranzition_width / (fs / 2) lies strictly between 0 and 1, ripple_db > 0
ValidOrderInput == args.ripple_db > 0 /\ InUnit(args.tranzition_width, args.fs)
\* the spec's valid input: fs > 0, a cutoff present, every normalised cutoff
\* in (0, 1), lowcut < highcut when both are present, a non-empty signal
ValidInput ==
  /\ args.fs > 0
  /\ HasLow \/ HasHigh
  /\ HasLow => InUnit(Val(args.lowcut), args.fs)
  /\ HasHigh => InUnit(Val(args.highcut), args.fs)
  /\ HasLow /\ HasHigh => Val(args.lowcut) < Val(args.highcut)
  /\ Len(Signal) >= 1
  /\ ValidOrderInput

\* C1 (as claimed): for every valid input kaiser_filter returns a filtered
\* signal, and its length is the length of the input signal.
C1_LengthPreserved ==
  (Ended /\ ValidInput) => run.ret.ok /\ Len(run.ret.value) = Len(Signal)

\* What does hold of the length: a call that returns returns one sample per
\* input sample, and a valid input is refused only where a highpass design
\* meets an even number of taps (the case of C10) or ripple_db is below 8.
LengthWhenReturned ==
  /\ (Ended /\ run.ret.ok) => Len(run.ret.value) = Len(Signal)
  /\ (Ended /\ ValidInput /\ run.ord.ok /\ (HasLow \/ run.ord.value.N % 2 = 1)) =>
       run.ret.ok

\* C2: whenever kaiser_filter reaches the design step (kaiserord returned)
\* with at least one cutoff, exactly one firwin call is made, with the
\* number of taps kaiserord gave: highpass at highcut / nyquist when lowcut
\* is absent, lowpass at lowcut / nyquist when highcut is absent, bandpass
\* over [lowcut / nyquist, highcut / nyquist] when both are present, with
\* nyquist = fs / 2 (edge * fs = 2 * cut, the edge being in thousandths).
C2_ModeSelection ==
  (Ended /\ run.ord.ok /\ (HasLow \/ HasHigh)) =>
    /\ run.design.ok
    /\ run.design.value.numtaps = run.ord.value.N
    /\ LET d == run.design.value
       IN  /\ (~HasLow) =>
                 /\ d.pass_zero = "highpass"
                 /\ Len(d.cutoff) = 1
                 /\ d.cutoff[1] * args.fs = 2000 * Val(args.highcut)
           /\ (HasLow /\ ~HasHigh) =>
                 /\ d.pass_zero = "lowpass"
                 /\ Len(d.cutoff) = 1
                 /\ d.cutoff[1] * args.fs = 2000 * Val(args.lowcut)
           /\ (HasLow /\ HasHigh) =>
                 /\ d.pass_zero = "bandpass"
                 /\ Len(d.cutoff) = 2
                 /\ d.cutoff[1] * args.fs = 2000 * Val(args.lowcut)
                 /\ d.cutoff[2] * args.fs = 2000 * Val(args.highcut)

\* a highpass design was requested and its taps were made
C2_Witness ==
  /\ Ended /\ run.design.ok /\ run.taps.ok
  /\ ~HasLow /\ run.design.value.pass_zero = "highpass"

RECURSIVE TapSum(_, _, _, _)
\* taps[0] * x[n] + taps[1] * x[n-1] + ... + taps[k] * x[n-k], indices from
\* 0, a sample before the start of x counting as 0
TapSum(b, x, n, k) ==
  IF k < 0 THEN 0
  ELSE b[k + 1] * (IF n - k < 0 THEN 0 ELSE x[n - k + 1]) + TapSum(b, x, n, k - 1)

\* C3: when lfilter returns, the output has one sample per input sample and
\* output[n] is the sum over k in 0 .. N_taps-1 of taps[k] * signal[n-k],
\* signal[n-k] counting as 0 for n-k < 0: causal, zero initial state.
C3_DirectForm ==
  (pc = "returned" /\ run.ret.ok) =>
    /\ Len(run.ret.value) = Len(Signal)
    /\ \A n \in 0..(Len(Signal) - 1) :
         run.ret.value[n + 1] = TapSum(run.taps.value, Signal, n, Len(run.taps.value) - 1)

\* more taps than samples, so the zero initial state is what fills the sum
C3_Witness ==
  /\ pc = "returned" /\ run.ret.ok /\ args.fn = "none"
  /\ Len(run.taps.value) = 3 /\ Len(Signal) = 2
  /\ run.ret.value[2] # 0

\* C4: a call with lowcut = None and highcut = None ends in an exception
\* (the spec's InvalidSpec): no taps are made and nothing is returned.
C4_BothAbsentFails ==
  (Ended /\ ~HasLow /\ ~HasHigh) =>
    ~run.ret.ok /\ run.ret.value = <<>> /\ ~run.taps.ok

\* both cutoffs absent, every other argument fine: the call got as far as
\* the design step and died there on None / nyq_rate
C4_Witness ==
  /\ Ended /\ ~HasLow /\ ~HasHigh
  /\ run.ord.ok /\ Len(Signal) >= 1 /\ run.ret.exc = "TypeError"

\* C5: a call with an empty signal ends in an exception, never in an output.
C5_EmptySignalRejected ==
  (Ended /\ Len(Signal) = 0) => ~run.ret.ok

\* empty signal, valid design: the taps were made and lfilter raised
C5_Witness ==
  /\ Ended /\ Len(Signal) = 0
  /\ run.taps.ok /\ run.ret.exc = "ValueError"

\* both cutoffs present and lowcut >= highcut, or a supplied cutoff whose
\* quotient by nyquist = fs / 2 is outside (0, 1)
BadEdges ==
  \/ HasLow /\ HasHigh /\ Val(args.lowcut) >= Val(args.highcut)
  \/ args.fs # 0 /\ HasLow /\ ~InUnit(Val(args.lowcut), args.fs)
  \/ args.fs # 0 /\ HasHigh /\ ~InUnit(Val(args.highcut), args.fs)

\* C6: with bad band edges the call ends in an exception; no taps and no
\* filtered signal are produced.
C6_BadEdgesRejected ==
  (Ended /\ BadEdges) => ~run.ret.ok /\ ~run.taps.ok /\ run.ret.value = <<>>

\* two cutoffs, each a valid edge, in the wrong order: firwin was called and
\* refused them
C6_Witness ==
  /\ Ended /\ HasLow /\ HasHigh
  /\ InUnit(Val(args.lowcut), args.fs) /\ InUnit(Val(args.highcut), args.fs)
  /\ Val(args.lowcut) > Val(args.highcut)
  /\ run.design.ok /\ run.ret.exc = "ValueError"

\* C7 (as claimed): a call with ripple_db <= 0, or with
\* tranzition_width / (fs / 2) <= 0 or >= 1 (fs <= 0 included), ends in an
\* exception and yields no output.
C7_OutOfRangeRejected ==
  (Ended /\ (args.ripple_db <= 0 \/ ~InUnit(args.tranzition_width, args.fs))) =>
    ~run.ret.ok

\* C8: a step of transform that ends in an exception returns nothing and
\* leaves the dataframe as it was; a step that succeeds adds (or replaces)
\* exactly the column filtered_<signal>, holding what kaiser_filter returned.
C8_AllOrNothing ==
  [][(pc = "called" /\ pc' = "returned") =>
       /\ ~run'.ret.ok => (run'.ret.value = <<>> /\ df' = df)
       /\ run'.ret.ok =>
            /\ DOMAIN df' = DOMAIN df \cup {"filtered_x"}
            /\ df'["filtered_x"] = run'.ret.value
            /\ \A c \in DOMAIN df \ {"filtered_x"} : df'[c] = df[c]]_vars

\* kaiser_filter failed inside transform on a dataframe that already held a
\* filtered column from an earlier run
C8_Witness ==
  /\ pc = "returned" /\ args.fn = "transform"
  /\ run.design.ok /\ ~run.ret.ok
  /\ "filtered_x" \in DOMAIN df /\ Len(df["filtered_x"]) >= 1

C10_HighpassSucceeds ==
  (/\ Ended /\ run.ord.ok /\ Len(Signal) >= 1
   /\ args.fs > 0 /\ ValidOrderInput
   /\ ~HasLow /\ HasHigh /\ InUnit(Val(args.highcut), args.fs)) =>
    /\ run.taps.ok
    /\ Len(run.taps.value) = run.ord.value.N
    /\ run.ret.ok

====
